---- MODULE Spec2Model ----
(***************************************************************************)
(* Model of the execution-plan core of array-agents: the diff of wallet    *)
(* positions against recommended positions (ExecutionAgent), the ordering  *)
(* of the trades, the urgency classification and the blending of two       *)
(* strategies (PortfolioManager), and the two stages of main that join     *)
(* them.                                                                   *)
(*                                                                         *)
(* Amounts are Python strings in the source.  A numeral string is modelled *)
(* as <<"num", n>> with n the amount in units of 0.0001, any other text as *)
(* <<"text", 0>>.  Decimal and float values are integers in the same unit; *)
(* float arithmetic is taken as exact, and round() as rounding the exact   *)
(* value.  Yields and rates are in hundredths of a                         *)
(* percentage point.  A Python dict keeps insertion order: it is a         *)
(* sequence of key/value records.  A JSON object is a record, a JSON file  *)
(* holds the object that was dumped to it.                                 *)
(*                                                                         *)
(* Each specification runs one operation on every input of its bounded     *)
(* domain: SpecSequencer, SpecDiff, SpecUrgency, SpecBlend,                *)
(* SpecRequiredTrades and SpecOptimizePlan one function each,              *)
(* SpecCreatePlan the execution planning task, SpecPipeline the stages     *)
(* portfolio optimization and execution planning of main, SpecMain the     *)
(* whole of main, SpecRerun the core functions run again on fixed inputs.  *)
(***************************************************************************)
EXTENDS Integers, Sequences, FiniteSets, TLC

VARIABLES pc, trades, transaction_order, wallet_data, portfolio_recommendation,
          execution_plan, yield_change, required_trades, trade_urgency,
          yield_strategy, risk_adjusted_strategy, market_data,
          recommendation_file, result, optimization, optimized_plan,
          runs, stages, exit_code

vars == <<pc, trades, transaction_order, wallet_data, portfolio_recommendation,
          execution_plan, yield_change, required_trades, trade_urgency,
          yield_strategy, risk_adjusted_strategy, market_data,
          recommendation_file, result, optimization, optimized_plan,
          runs, stages, exit_code>>

(* ------------------------------ bounds --------------------------------- *)

MaxTrades == 3

MaxPositions == 2

MaxStrategyPositions == 1

MaxBalances == 3

MaxPlanTrades == 6

MaxRuns == 2

(* ------------------------------ domains -------------------------------- *)

Num(n) == <<"num", n>>

BadText == <<"text", 0>>

Actions == {"add", "increase", "decrease", "remove", "adjust"}

RECURSIVE SeqsUpTo(_, _)
SeqsUpTo(S, n) ==
    IF n = 0 THEN {<<>>}
    ELSE LET shorter == SeqsUpTo(S, n - 1)
         IN  shorter \cup {Append(s, x) : s \in {t \in shorter : Len(t) = n - 1}, x \in S}

(* ------------------------- ExecutionAgent helpers ----------------------- *)

\* _to_decimal: Decimal(value), and Decimal('0') when the text does not parse.
_to_decimal(value) == IF value[1] = "num" THEN value[2] ELSE 0

\* str(Decimal): the numeral of a Decimal value.
DecimalStr(d) == Num(d)

Abs(x) == IF x < 0 THEN 0 - x ELSE x

\* dict.get(key, default) on a JSON object.
Get(obj, field, default) == IF field \in DOMAIN obj THEN obj[field] ELSE default

\* An insertion-ordered dict: d[key] = val keeps the place of a key already there.
DictHas(d, k) == \E i \in DOMAIN d : d[i].key = k

DictGet(d, k) == d[CHOOSE i \in DOMAIN d : d[i].key = k].val

DictPut(d, k, v) ==
    IF DictHas(d, k)
    THEN [i \in DOMAIN d |-> IF d[i].key = k THEN [key |-> k, val |-> v] ELSE d[i]]
    ELSE Append(d, [key |-> k, val |-> v])

(* ------------------------------ Sequencer ------------------------------- *)

IsWithdrawal(trade) == trade.action \in {"remove", "decrease"}

withdrawals(ts) == SelectSeq(ts, IsWithdrawal)

NotWithdrawal(trade) == ~IsWithdrawal(trade)

IsKnownDeposit(trade) == trade.action \in {"add", "increase"}

\* Only the add and increase trades: a trade of any other action is dropped.
KnownDeposits(ts) == SelectSeq(ts, IsKnownDeposit)

deposits(ts) == SelectSeq(ts, NotWithdrawal)

InsertAt(sorted, k, t) ==
    SubSeq(sorted, 1, k) \o <<t>> \o SubSeq(sorted, k + 1, Len(sorted))

\* Place of an element among those sorted before it when equal keys are put
\* in front: the order of ties is reversed.
InsertPointTiesFirst(sorted, t) ==
    Cardinality({i \in DOMAIN sorted : _to_decimal(sorted[i].amount) > _to_decimal(t.amount)})

\* Place of an element under an ascending sort (reverse=True left out).
InsertPointAscending(sorted, t) ==
    Cardinality({i \in DOMAIN sorted : _to_decimal(sorted[i].amount) <= _to_decimal(t.amount)})

\* Place at which list.sort(key, reverse=True) leaves an element that entered
\* after those of `sorted`: behind every element whose key is not smaller.
InsertPoint(sorted, t) ==
    Cardinality({i \in DOMAIN sorted : _to_decimal(sorted[i].amount) >= _to_decimal(t.amount)})

RECURSIVE SortFrom(_, _)
SortFrom(sorted, rest) ==
    IF rest = <<>> THEN sorted
    ELSE SortFrom(InsertAt(sorted, InsertPoint(sorted, Head(rest)), Head(rest)), Tail(rest))

\* list.sort(key=lambda x: self._to_decimal(x["amount"]), reverse=True)
SortByAmountDesc(list) == SortFrom(<<>>, list)

\* Deposits returned in front of the withdrawals.
DepositsFirst(ts) ==
    SortByAmountDesc(deposits(ts)) \o SortByAmountDesc(withdrawals(ts))

_determine_transaction_order(ts) ==
    SortByAmountDesc(withdrawals(ts)) \o SortByAmountDesc(deposits(ts))

(* ------------------------------ Diff Engine ----------------------------- *)

DustThreshold == 100

\* f"{position['symbol']}:{position['protocol_name']}:{position['market_name']}"
PositionKey(position) ==
    <<position.symbol, position.protocol_name, position.market_name>>

PositionEntry(position) ==
    [symbol |-> position.symbol, protocol_name |-> position.protocol_name,
     market_name |-> position.market_name, amount |-> _to_decimal(position.amount),
     obligation_type |-> position.obligation_type]

RECURSIVE ExtractPositions(_, _)
ExtractPositions(positions, d) ==
    IF positions = <<>> THEN d
    ELSE ExtractPositions(Tail(positions),
                          DictPut(d, PositionKey(Head(positions)), PositionEntry(Head(positions))))

current_positions(wd) == ExtractPositions(Get(wd, "wallet_positions", <<>>), <<>>)

recommended_positions(pr) == ExtractPositions(Get(pr, "ideal_positions", <<>>), <<>>)

MakeTrade(action, position, amount) ==
    [action |-> action, symbol |-> position.symbol,
     protocol_name |-> position.protocol_name, market_name |-> position.market_name,
     amount |-> DecimalStr(amount), obligation_type |-> position.obligation_type]

\* One adjust trade in place of increase and decrease.
AdjustInPlaceOfIncrease(recommended, current) ==
    LET diff == recommended.amount - current.amount
    IN  IF Abs(diff) > DustThreshold
        THEN <<MakeTrade("adjust", recommended, Abs(diff))>>
        ELSE <<>>

\* A decrease that carries the signed difference.
SignedAdjustment(recommended, current) ==
    LET diff == recommended.amount - current.amount
    IN  IF Abs(diff) > DustThreshold
        THEN IF diff > 0
             THEN <<MakeTrade("increase", recommended, diff)>>
             ELSE <<MakeTrade("decrease", recommended, diff)>>
        ELSE <<>>

\* The trade, if any, of one recommended position (the body of the first loop).
AdjustmentTrade(recommended, current) ==
    LET diff == recommended.amount - current.amount
    IN  IF Abs(diff) > DustThreshold
        THEN IF diff > 0
             THEN <<MakeTrade("increase", recommended, diff)>>
             ELSE <<MakeTrade("decrease", recommended, Abs(diff))>>
        ELSE <<>>

RecommendedTrade(key, recommended, cur) ==
    IF ~DictHas(cur, key)
    THEN <<MakeTrade("add", recommended, recommended.amount)>>
    ELSE AdjustmentTrade(recommended, DictGet(cur, key))

RECURSIVE AddOrAdjustTrades(_, _)
AddOrAdjustTrades(rec, cur) ==
    IF rec = <<>> THEN <<>>
    ELSE RecommendedTrade(Head(rec).key, Head(rec).val, cur) \o AddOrAdjustTrades(Tail(rec), cur)

\* A remove emitted for every current position, recommended or not.
RemoveEveryPosition(cur, rec) ==
    [i \in DOMAIN cur |-> MakeTrade("remove", cur[i].val, cur[i].val.amount)]

RECURSIVE RemoveTrades(_, _)
RemoveTrades(cur, rec) ==
    IF cur = <<>> THEN <<>>
    ELSE (IF ~DictHas(rec, Head(cur).key)
          THEN <<MakeTrade("remove", Head(cur).val, Head(cur).val.amount)>>
          ELSE <<>>) \o RemoveTrades(Tail(cur), rec)

\* A later balance of a symbol replacing the earlier ones.
RECURSIVE LastBalanceOfSymbol(_, _)
LastBalanceOfSymbol(balances, unallocated) ==
    IF balances = <<>> THEN unallocated
    ELSE LastBalanceOfSymbol(Tail(balances),
                             DictPut(unallocated, Head(balances).symbol, Head(balances).amount))

RECURSIVE UnallocatedFrom(_, _)
UnallocatedFrom(balances, unallocated) ==
    IF balances = <<>> THEN unallocated
    ELSE LET symbol == Head(balances).symbol
             amount == Head(balances).amount
         IN  UnallocatedFrom(
                 Tail(balances),
                 IF ~DictHas(unallocated, symbol)
                 THEN DictPut(unallocated, symbol, amount)
                 ELSE DictPut(unallocated, symbol,
                              DecimalStr(_to_decimal(DictGet(unallocated, symbol))
                                         + _to_decimal(amount))))

_get_unallocated_balance(wd) == UnallocatedFrom(Get(wd, "wallet_balances", <<>>), <<>>)

DiffTrades(wd, pr) ==
    AddOrAdjustTrades(recommended_positions(pr), current_positions(wd))
        \o RemoveTrades(current_positions(wd), recommended_positions(pr))

_generate_execution_plan(wd, pr) ==
    [trade_execution |-> DiffTrades(wd, pr),
     unallocated_balance |-> _get_unallocated_balance(wd),
     transaction_order |-> _determine_transaction_order(DiffTrades(wd, pr)),
     execution_strategy |-> "batch"]

\* str.lower() of the protocol names of the model.
Lower(name) ==
    CASE name = "Kamino" -> "kamino"
      [] name = "Drift" -> "drift"
      [] OTHER -> name

\* The protocol-specific settings written into a trade dict.
WithProtocolSettings(trade) ==
    LET protocol == Lower(trade.protocol_name)
        with(settings) ==
            [f \in DOMAIN trade \cup {"protocol_settings"} |->
                IF f = "protocol_settings" THEN settings ELSE trade[f]]
    IN  IF protocol = "marginfi"
        THEN with([use_router |-> TRUE, max_slippage |-> "0.3%"])
        ELSE IF protocol = "drift"
        THEN with([use_perp_markets |-> FALSE, max_slippage |-> "0.4%"])
        ELSE IF protocol \in {"kamino", "solend", "save"}
        THEN with([max_slippage |-> "0.3%"])
        ELSE trade

\* The trade count, uncapped.
TradeCount(a, b) == a

Min(a, b) == IF a < b THEN a ELSE b

MaxBatch == 5

\* The trade dicts of trade_execution are the objects transaction_order holds:
\* the settings written through one list show in the other.
_apply_optimization_strategies(plan) ==
    LET ts == Get(plan, "trade_execution", <<>>)
    IN  [f \in DOMAIN plan \cup {"batch_size", "mev_protection", "gas_settings"} |->
            CASE f = "batch_size" -> Min(Len(ts), MaxBatch)
              [] f = "mev_protection" ->
                     [enabled |-> TRUE, strategy |-> "time_randomization"]
              [] f = "gas_settings" ->
                     [prioritize |-> "speed", max_fee_per_gas |-> "auto",
                      gas_priority_fee |-> "auto"]
              [] f \in {"trade_execution", "transaction_order"} ->
                     [i \in DOMAIN plan[f] |-> WithProtocolSettings(plan[f][i])]
              [] OTHER -> plan[f]]

\* The plan passed to _apply_optimization_strategies after the call: the copy
\* is shallow, so the settings are written into the caller's trade dicts.
PlanAfterOptimization(plan) ==
    [f \in DOMAIN plan |->
        IF f \in {"trade_execution", "transaction_order"}
        THEN [i \in DOMAIN plan[f] |-> WithProtocolSettings(plan[f][i])]
        ELSE plan[f]]

(* --------------------------- PortfolioManager --------------------------- *)

\* float(text) raises ValueError on a text that is no numeral.
FloatRaises(value) == value[1] # "num"

\* float(text), in units of 0.0001 (rates: in hundredths of a point).
Float(value) == value[2]

\* str(float)
FloatStr(x) == Num(x)

\* round(n / d) to the nearest integer (d > 0).  Where the exact value lies
\* halfway, Python rounds the binary float, which falls to either side; the
\* amounts of the inputs are chosen so that no blended amount lies halfway.
RoundDiv(n, d) ==
    LET q == n \div d
        r == n % d
    IN  IF 2 * r < d THEN q
        ELSE IF 2 * r > d THEN q + 1
        ELSE IF q % 2 = 0 THEN q ELSE q + 1

\* The first bucket closed at 3: risk_score <= 3 in place of risk_score < 3.
WeightsThreeInclusive(risk_score) ==
    IF risk_score <= 3 THEN [yield_weight |-> 8, risk_weight |-> 2, approach |-> "yield_priority"]
    ELSE IF risk_score < 6 THEN [yield_weight |-> 5, risk_weight |-> 5, approach |-> "balanced"]
    ELSE [yield_weight |-> 2, risk_weight |-> 8, approach |-> "risk_priority"]

\* (yield_weight, risk_weight) in tenths, and the approach, by risk score.
Weights(risk_score) ==
    IF risk_score < 3 THEN [yield_weight |-> 8, risk_weight |-> 2, approach |-> "yield_priority"]
    ELSE IF risk_score < 6 THEN [yield_weight |-> 5, risk_weight |-> 5, approach |-> "balanced"]
    ELSE [yield_weight |-> 2, risk_weight |-> 8, approach |-> "risk_priority"]

\* f"{position['protocol_name']}|{position['market_name']}"
StrategyKey(position) == <<position.protocol_name, position.market_name>>

RECURSIVE AddYieldPositions(_, _)
AddYieldPositions(yield_positions, position_map) ==
    IF yield_positions = <<>> THEN position_map
    ELSE LET position == Head(yield_positions)
         IN  AddYieldPositions(
                 Tail(yield_positions),
                 DictPut(position_map, StrategyKey(position),
                         [symbol |-> position.symbol,
                          protocol_name |-> position.protocol_name,
                          market_name |-> position.market_name,
                          yield_amount |-> Float(position.amount),
                          risk_amount |-> 0,
                          obligation_type |-> position.obligation_type]))

\* A key the map holds already takes the symbol and the obligation type of
\* the risk position as well as its amount.
RECURSIVE AddRiskPositionsOverwriting(_, _)
AddRiskPositionsOverwriting(risk_positions, position_map) ==
    IF risk_positions = <<>> THEN position_map
    ELSE LET position == Head(risk_positions)
             key == StrategyKey(position)
         IN  AddRiskPositionsOverwriting(
                 Tail(risk_positions),
                 DictPut(position_map, key,
                         [symbol |-> position.symbol,
                          protocol_name |-> position.protocol_name,
                          market_name |-> position.market_name,
                          yield_amount |-> IF DictHas(position_map, key)
                                           THEN DictGet(position_map, key).yield_amount
                                           ELSE 0,
                          risk_amount |-> Float(position.amount),
                          obligation_type |-> position.obligation_type]))

RECURSIVE AddRiskPositions(_, _)
AddRiskPositions(risk_positions, position_map) ==
    IF risk_positions = <<>> THEN position_map
    ELSE LET position == Head(risk_positions)
             key == StrategyKey(position)
         IN  AddRiskPositions(
                 Tail(risk_positions),
                 IF DictHas(position_map, key)
                 THEN DictPut(position_map, key,
                              [DictGet(position_map, key) EXCEPT
                                  !.risk_amount = Float(position.amount)])
                 ELSE DictPut(position_map, key,
                              [symbol |-> position.symbol,
                               protocol_name |-> position.protocol_name,
                               market_name |-> position.market_name,
                               yield_amount |-> 0,
                               risk_amount |-> Float(position.amount),
                               obligation_type |-> position.obligation_type]))

\* The two weights applied to the wrong strategies.
WeightsSwapped(position, yield_weight, risk_weight) ==
    position.yield_amount * risk_weight + position.risk_amount * yield_weight

\* The weighted amount of one entry, in units of 0.00001 (weights are tenths).
WeightedAmount(position, yield_weight, risk_weight) ==
    position.yield_amount * yield_weight + position.risk_amount * risk_weight

RECURSIVE WeightedPositions(_, _, _)
WeightedPositions(position_map, yield_weight, risk_weight) ==
    IF position_map = <<>> THEN <<>>
    ELSE LET position == Head(position_map).val
             weighted_amount == WeightedAmount(position, yield_weight, risk_weight)
         IN  (IF weighted_amount > 0
              THEN <<[symbol |-> position.symbol,
                      protocol_name |-> position.protocol_name,
                      market_name |-> position.market_name,
                      amount |-> FloatStr(RoundDiv(weighted_amount, 10)),
                      obligation_type |-> position.obligation_type]>>
              ELSE <<>>)
             \o WeightedPositions(Tail(position_map), yield_weight, risk_weight)

_combine_strategies(yield_positions, risk_positions, yield_weight, risk_weight) ==
    WeightedPositions(AddRiskPositions(risk_positions, AddYieldPositions(yield_positions, <<>>)),
                      yield_weight, risk_weight)

RECURSIVE StrategyMap(_, _)
StrategyMap(positions, m) ==
    IF positions = <<>> THEN m
    ELSE StrategyMap(Tail(positions), DictPut(m, StrategyKey(Head(positions)), Head(positions)))

\* The relative test with >= in place of >.
AtLeastFivePercent(difference, current_amount) == 20 * Abs(difference) >= current_amount

\* abs(difference) / current_amount > 0.05, for current_amount > 0.
AboveFivePercent(difference, current_amount) == 20 * Abs(difference) > current_amount

RECURSIVE RemoveOrAdjustTrades(_, _)
RemoveOrAdjustTrades(current_map, target_map) ==
    IF current_map = <<>> THEN <<>>
    ELSE LET key == Head(current_map).key
             position == Head(current_map).val
         IN  (IF ~DictHas(target_map, key)
              THEN <<[action |-> "remove", symbol |-> position.symbol,
                      protocol_name |-> position.protocol_name,
                      market_name |-> position.market_name,
                      amount |-> position.amount,
                      obligation_type |-> position.obligation_type]>>
              ELSE LET current_amount == Float(position.amount)
                       target_amount == Float(DictGet(target_map, key).amount)
                       difference == target_amount - current_amount
                   IN  IF AboveFivePercent(difference, current_amount)
                       THEN <<[action |-> "adjust", symbol |-> position.symbol,
                               protocol_name |-> position.protocol_name,
                               market_name |-> position.market_name,
                               current_amount |-> position.amount,
                               target_amount |-> DictGet(target_map, key).amount,
                               difference |-> FloatStr(difference),
                               obligation_type |-> position.obligation_type]>>
                       ELSE <<>>)
             \o RemoveOrAdjustTrades(Tail(current_map), target_map)

RECURSIVE AddTrades(_, _)
AddTrades(target_map, current_map) ==
    IF target_map = <<>> THEN <<>>
    ELSE LET position == Head(target_map).val
         IN  (IF ~DictHas(current_map, Head(target_map).key)
              THEN <<[action |-> "add", symbol |-> position.symbol,
                      protocol_name |-> position.protocol_name,
                      market_name |-> position.market_name,
                      amount |-> position.amount,
                      obligation_type |-> position.obligation_type]>>
              ELSE <<>>)
             \o AddTrades(Tail(target_map), current_map)

_calculate_required_trades(current, target) ==
    RemoveOrAdjustTrades(StrategyMap(current, <<>>), StrategyMap(target, <<>>))
        \o AddTrades(StrategyMap(target, <<>>), StrategyMap(current, <<>>))

\* The division of the relative test raises ZeroDivisionError, or a float() of
\* the compared amounts raises ValueError.
RequiredTradesRaises(current, target) ==
    \E i \in DOMAIN StrategyMap(current, <<>>) :
        LET entry == StrategyMap(current, <<>>)[i]
        IN  /\ DictHas(StrategyMap(target, <<>>), entry.key)
            /\ \/ FloatRaises(entry.val.amount)
               \/ FloatRaises(DictGet(StrategyMap(target, <<>>), entry.key).amount)
               \/ Float(entry.val.amount) = 0

RECURSIVE SumAmounts(_)
SumAmounts(items) ==
    IF items = <<>> THEN 0 ELSE Float(Head(items).amount) + SumAmounts(Tail(items))

\* The inner loop over one token's reserves: the rate of the first reserve of
\* the position's market whose rate parses, else the yield found so far.
RECURSIVE ReserveYield(_, _, _)
ReserveYield(reserves, position, position_yield) ==
    IF reserves = <<>> THEN position_yield
    ELSE IF /\ Head(reserves).protocol_name = position.protocol_name
            /\ Head(reserves).market_name = position.market_name
            /\ ~FloatRaises(Head(reserves).supply_rate)
         THEN Float(Head(reserves).supply_rate)
         ELSE ReserveYield(Tail(reserves), position, position_yield)

RECURSIVE PositionYield(_, _, _)
PositionYield(token_data, position, position_yield) ==
    IF token_data = <<>> THEN position_yield
    ELSE LET found == ReserveYield(Get(Head(token_data), "lending_reserves", <<>>),
                                   position, position_yield)
         IN  IF found > 0 THEN found
             ELSE PositionYield(Tail(token_data), position, found)

RECURSIVE WeightedYieldSum(_, _)
WeightedYieldSum(positions, md) ==
    IF positions = <<>> THEN 0
    ELSE Float(Head(positions).amount) * PositionYield(md, Head(positions), 0)
             + WeightedYieldSum(Tail(positions), md)

\* round(sum(amount / total_amount * position_yield), 2), in hundredths.
_calculate_current_yield(positions, md) ==
    IF positions = <<>> THEN 0
    ELSE IF SumAmounts(positions) = 0 THEN 0
    ELSE RoundDiv(WeightedYieldSum(positions, md), SumAmounts(positions))

_calculate_expected_yield(positions, md) == _calculate_current_yield(positions, md)

(* ------------------------- Urgency classifier --------------------------- *)

SignificantYield == 100

IsSignificantTrade(t) == t.action \in {"add", "remove"}

significant_trades(ts) == SelectSeq(ts, IsSignificantTrade)

\* yield_change > 1.0 in place of >= 1.0.
StrictlyAboveOne(yc) == yc > SignificantYield

significant_yield_change(yc) == yc >= SignificantYield

_determine_trade_urgency(yc, ts) ==
    IF ts = <<>> THEN "none"
    ELSE IF significant_yield_change(yc) /\ Len(significant_trades(ts)) >= 2 THEN "high"
    ELSE IF significant_yield_change(yc) \/ Len(significant_trades(ts)) >= 2 THEN "medium"
    ELSE "low"

\* The timeline of an urgency taken from the trades alone.
TimelineOfTradesAlone(ts, yc) ==
    LET urgency == _determine_trade_urgency(0, ts)
    IN  IF urgency = "medium" THEN "Execute trades within the next 24-48 hours"
        ELSE IF urgency = "low" THEN "Execute trades during regular rebalancing schedule"
        ELSE "No trades required at this time"

_recommend_execution_timeline(ts, yc) ==
    LET urgency == _determine_trade_urgency(yc, ts)
    IN  IF urgency = "high" THEN "Execute trades immediately to capture yield opportunity"
        ELSE IF urgency = "medium" THEN "Execute trades within the next 24-48 hours"
        ELSE IF urgency = "low" THEN "Execute trades during regular rebalancing schedule"
        ELSE "No trades required at this time"

(* ----------------------- portfolio optimization ------------------------- *)

optimized_positions(ys, rs) ==
    _combine_strategies(Get(ys, "ideal_positions", <<>>), Get(rs, "ideal_positions", <<>>),
                        Weights(Get(rs, "risk_score", 5)).yield_weight,
                        Weights(Get(rs, "risk_score", 5)).risk_weight)

\* The optimization result (the descriptive texts approach_description and
\* market_notes are left out).
_generate_optimized_portfolio(ys, rs, md, wd) ==
    LET current == Get(wd, "wallet_positions", <<>>)
        optimized == optimized_positions(ys, rs)
        required == _calculate_required_trades(current, optimized)
        expected_yield == _calculate_expected_yield(optimized, md)
        current_yield == _calculate_current_yield(current, md)
    IN  [total_portfolio_value |->
             FloatStr(SumAmounts(current) + SumAmounts(Get(wd, "wallet_balances", <<>>))),
         optimization_approach |-> Weights(Get(rs, "risk_score", 5)).approach,
         risk_score |-> Get(rs, "risk_score", 5),
         risk_level |-> Get(rs, "risk_level", "medium"),
         current_yield |-> current_yield,
         expected_yield |-> expected_yield,
         yield_change |-> expected_yield - current_yield,
         optimized_positions |-> optimized,
         required_trades |-> required,
         trade_urgency |-> _determine_trade_urgency(expected_yield - current_yield, required),
         execution_timeline |->
             _recommend_execution_timeline(required, expected_yield - current_yield)]

AnyFloatRaises(items) == \E i \in DOMAIN items : FloatRaises(items[i].amount)

\* An exception leaves _generate_optimized_portfolio: a float() of an amount
\* that is no numeral, or the division by a current amount of zero.
OptimizationRaises(ys, rs, wd) ==
    \/ AnyFloatRaises(Get(wd, "wallet_positions", <<>>))
    \/ AnyFloatRaises(Get(wd, "wallet_balances", <<>>))
    \/ AnyFloatRaises(Get(ys, "ideal_positions", <<>>))
    \/ AnyFloatRaises(Get(rs, "ideal_positions", <<>>))
    \/ RequiredTradesRaises(Get(wd, "wallet_positions", <<>>), optimized_positions(ys, rs))

\* What the environment does to a task: a knowledge source or a file that
\* cannot be read.
Faults == {"none", "market_data", "wallet_data", "yield_strategy",
           "risk_adjusted_strategy", "portfolio_recommendation"}

\* The result of access_knowledge when the source fails.
KnowledgeError == [error |-> "Error accessing knowledge source"]

Failed(message) == [error |-> message, status |-> "failed"]

\* PortfolioManager._optimize_portfolio with every path given and json output.
_optimize_portfolio(ys, rs, md, wd, fault) ==
    IF fault \in {"market_data", "wallet_data"} THEN KnowledgeError
    ELSE IF fault = "yield_strategy" THEN Failed("Error loading yield strategy")
    ELSE IF fault = "risk_adjusted_strategy" THEN Failed("Error loading risk-adjusted strategy")
    ELSE IF OptimizationRaises(ys, rs, wd) THEN Failed("Error optimizing portfolio")
    ELSE [status |-> "success",
          data |-> _generate_optimized_portfolio(ys, rs, md, wd),
          message |-> "Portfolio optimization completed successfully"]

\* ExecutionAgent._create_execution_plan with both paths given and json output;
\* `file` is the recommendation file as found on disk.
_create_execution_plan(wd, file, fault) ==
    IF fault = "wallet_data" THEN KnowledgeError
    ELSE IF fault = "portfolio_recommendation" \/ ~file.exists
    THEN Failed("Error loading portfolio recommendation")
    ELSE [status |-> "success",
          data |-> _apply_optimization_strategies(_generate_execution_plan(wd, file.content)),
          message |-> "Execution plan created successfully"]

(* ------------------------------ inputs ---------------------------------- *)

TradeAmounts == {Num(10000), Num(20000), BadText}

Trade(a, amt) ==
    [action |-> a, symbol |-> "USDC", protocol_name |-> "Kamino", market_name |-> "Main",
     amount |-> amt, obligation_type |-> "Supply"]

TradeInputs == {Trade(a, amt) : a \in Actions, amt \in TradeAmounts}

\* Position identities of the inputs: two obligation types on one market, and
\* a second protocol.
PositionIds == {<<"Kamino", "Supply">>, <<"Kamino", "Borrow">>, <<"Drift", "Supply">>}

\* 100.00, 100.01 and 100.0201: differences of 0.01 (the threshold), 0.0101 and 0.0201.
PositionAmounts == {Num(1000000), Num(1000100), Num(1000201)}

Position(id, amt) ==
    [symbol |-> "USDC", protocol_name |-> id[1], market_name |-> "Main",
     amount |-> amt, obligation_type |-> id[2]]

PositionInputs == {Position(id, amt) : id \in PositionIds, amt \in PositionAmounts}

\* Identity of a position in the data model.
Identity(p) == <<p.symbol, p.protocol_name, p.market_name, p.obligation_type>>

UniqueIdentities(ps) ==
    \A i, j \in DOMAIN ps : i # j => Identity(ps[i]) # Identity(ps[j])

PositionLists == {ps \in SeqsUpTo(PositionInputs, MaxPositions) : UniqueIdentities(ps)}

Balance(sym, amt) == [symbol |-> sym, amount |-> amt]

BalanceLists == {<<>>, <<Balance("USDC", Num(50000)), Balance("USDC", Num(70000))>>}

YieldChanges == {0 - 50, 0, 99, 100, 250}

UrgencyTrades == {Trade(a, Num(10000)) : a \in Actions}

\* The pipeline's wallets: supplies on two protocols, of 100.00, 100.005 or 0.
PipelineWalletInputs ==
    {Position(id, amt) : id \in {<<"Kamino", "Supply">>, <<"Drift", "Supply">>},
                         amt \in {Num(1000000), Num(1000050), Num(0)}}

PipelineWallets ==
    {ps \in SeqsUpTo(PipelineWalletInputs, MaxPositions) : UniqueIdentities(ps)}

\* The strategies' positions: supplies of 100.00 or 0.0002.
StrategyInputs ==
    {Position(id, amt) : id \in {<<"Kamino", "Supply">>, <<"Drift", "Supply">>},
                         amt \in {Num(1000000), Num(2)}}

StrategyLists == SeqsUpTo(StrategyInputs, MaxStrategyPositions)

RiskScores == {2, 3, 6}

Reserve(protocol, rate) ==
    [protocol_name |-> protocol, market_name |-> "Main", supply_rate |-> <<"num", rate>>]

\* No market data, or one token lent at 5.00 on Kamino and at 6.50 on Drift.
MarketDataInputs ==
    {<<>>, <<[lending_reserves |-> <<Reserve("Kamino", 500), Reserve("Drift", 650)>>]>>}

\* The Blender's inputs: 0, 0.0002, 30.00 and 50.00 on the position
\* identities; the borrowed token is SOL, the supplied one USDC.
BlendAmounts == {Num(0), Num(2), Num(300000), Num(500000)}

BlendInputs ==
    {[Position(id, amt) EXCEPT !.symbol = IF id[2] = "Borrow" THEN "SOL" ELSE "USDC"] :
        id \in PositionIds, amt \in BlendAmounts}

BlendLists == SeqsUpTo(BlendInputs, MaxStrategyPositions)

BlendRiskScores == {0, 2, 3, 5, 6, 10}

\* A risk-adjusted strategy with a risk score, or without one.
BlendRiskStrategies ==
    {[ideal_positions |-> ps, risk_score |-> score] : ps \in BlendLists, score \in BlendRiskScores}
        \cup {[ideal_positions |-> ps] : ps \in BlendLists}

\* The relative diff's current positions, of 0 or 100.00, and its target
\* positions, of 90.00, 105.00 (5 percent above 100.00) or 105.0001.
CurrentInputs == {Position(id, amt) : id \in PositionIds, amt \in {Num(0), Num(1000000)}}

TargetInputs ==
    {Position(id, amt) : id \in PositionIds,
                         amt \in {Num(900000), Num(1050000), Num(1050001)}}

CurrentLists == {ps \in SeqsUpTo(CurrentInputs, MaxPositions) : UniqueIdentities(ps)}

\* The target is an output of _combine_strategies: one position per market.
TargetLists ==
    {ps \in SeqsUpTo(TargetInputs, MaxPositions) :
        \A i, j \in DOMAIN ps : i # j => StrategyKey(ps[i]) # StrategyKey(ps[j])}

\* Plan creation's positions, of 90.00 or of a text that is no numeral, and
\* its balances: USDC of 5.00, 7.00 or no numeral, SOL of 5.00.
PlanPositionInputs ==
    {Position(id, amt) : id \in {<<"Kamino", "Supply">>, <<"Drift", "Supply">>},
                         amt \in {Num(900000), BadText}}

PlanPositionLists ==
    {ps \in SeqsUpTo(PlanPositionInputs, MaxPositions) : UniqueIdentities(ps)}

PlanBalanceInputs ==
    {Balance("USDC", Num(50000)), Balance("USDC", Num(70000)), Balance("USDC", BadText),
     Balance("SOL", Num(50000))}

PlanBalanceLists == SeqsUpTo(PlanBalanceInputs, MaxBalances)

\* The trades of the plans that are optimized: on Kamino, on Drift, and on a
\* protocol without settings.
PlanTradeInputs ==
    {[Trade("add", Num(10000)) EXCEPT !.protocol_name = "Kamino"],
     [Trade("remove", Num(20000)) EXCEPT !.protocol_name = "Drift"],
     [Trade("increase", Num(20000)) EXCEPT !.protocol_name = "Orca"]}

PlanTradeLists == SeqsUpTo(PlanTradeInputs, MaxPlanTrades)

(* ------------------------------ state ----------------------------------- *)

NoWallet == [wallet_positions |-> <<>>, wallet_balances |-> <<>>]

NoRecommendation == [ideal_positions |-> <<>>]

NoStrategy == [ideal_positions |-> <<>>]

NoPlan == [trade_execution |-> <<>>, unallocated_balance |-> <<>>,
           transaction_order |-> <<>>, execution_strategy |-> "batch"]

NoFile == [exists |-> FALSE]

NoResult == [status |-> "unset"]

NoOptimization == [approach |-> "unset"]

NoOptimizedPlan == [execution_strategy |-> "unset"]

sequencerVars == <<trades, transaction_order>>

urgencyVars == <<yield_change, required_trades, trade_urgency>>

pipelineVars == <<yield_strategy, risk_adjusted_strategy, market_data,
                  recommendation_file, result>>

optimizerVars == <<optimization, optimized_plan>>

mainVars == <<stages, exit_code>>

SequencerIdle == trades = <<>> /\ transaction_order = <<>>

UrgencyIdle == yield_change = 0 /\ required_trades = <<>> /\ trade_urgency = "unset"

PipelineIdle ==
    /\ yield_strategy = NoStrategy
    /\ risk_adjusted_strategy = NoStrategy
    /\ market_data = <<>>
    /\ recommendation_file = NoFile
    /\ result = NoResult

OptimizerIdle == optimization = NoOptimization /\ optimized_plan = NoOptimizedPlan

\* main has not been started: no stage has run and main has returned no exit
\* code (exit_code is <<>> until main returns, then <<0>> or <<1>>).
MainIdle == stages = <<>> /\ exit_code = <<>>

\* The stages of main, in the order of its calls.
StageOrder == <<"data_aggregation", "research", "yield_analysis", "risk_assessment",
                "portfolio_optimization", "execution_planning", "final_report">>

\* The stage's error does not reach main: main goes on to return as if the
\* stage had returned.
StageErrorIgnored(stage, error) ==
    /\ stages' = Append(stages, [stage |-> stage, error |-> error])
    /\ exit_code' = IF stage = "final_report" THEN <<0>> ELSE exit_code

\* A stage function has returned, or has raised on a result that contains
\* error: the exception reaches main's except clause, which returns 1.  The
\* last stage is followed by return 0.
StageReturns(stage, error) ==
    /\ stages' = Append(stages, [stage |-> stage, error |-> error])
    /\ exit_code' = IF error THEN <<1>>
                    ELSE IF stage = "final_report" THEN <<0>>
                    ELSE exit_code

\* The four stages before portfolio optimization have returned without error.
EarlierStages ==
    [i \in 1..4 |-> [stage |-> StageOrder[i], error |-> FALSE]]

\* The Sequencer alone, on every trade list.
InitSequencer ==
    /\ pc = "start"
    /\ trades \in SeqsUpTo(TradeInputs, MaxTrades)
    /\ transaction_order = <<>>
    /\ wallet_data = NoWallet
    /\ portfolio_recommendation = NoRecommendation
    /\ execution_plan = NoPlan
    /\ UrgencyIdle
    /\ PipelineIdle
    /\ OptimizerIdle
    /\ MainIdle
    /\ runs = <<>>

DetermineTransactionOrder ==
    /\ pc = "start"
    /\ transaction_order' = _determine_transaction_order(trades)
    /\ pc' = "ordered"
    /\ UNCHANGED <<trades, wallet_data, portfolio_recommendation, execution_plan,
                   urgencyVars, pipelineVars, optimizerVars,
                   mainVars, runs>>

NextSequencer == DetermineTransactionOrder

SpecSequencer == InitSequencer /\ [][NextSequencer]_vars

\* The execution plan of a wallet and a recommendation.
InitDiff ==
    /\ pc = "start"
    /\ SequencerIdle
    /\ \E ps \in PositionLists, bs \in BalanceLists :
           wallet_data = [wallet_positions |-> ps, wallet_balances |-> bs]
    /\ \E ps \in PositionLists : portfolio_recommendation = [ideal_positions |-> ps]
    /\ execution_plan = NoPlan
    /\ UrgencyIdle
    /\ PipelineIdle
    /\ OptimizerIdle
    /\ MainIdle
    /\ runs = <<>>

\* The wallet's position dicts reused as the remove trades: the action is
\* written into the input.
GenerateExecutionPlanInPlace ==
    /\ pc = "start"
    /\ execution_plan' = _generate_execution_plan(wallet_data, portfolio_recommendation)
    /\ wallet_data' =
           [wallet_data EXCEPT !.wallet_positions =
               [i \in DOMAIN @ |->
                   [f \in DOMAIN @[i] \cup {"action"} |->
                       IF f = "action" THEN "remove" ELSE @[i][f]]]]
    /\ pc' = "planned"
    /\ UNCHANGED <<sequencerVars, portfolio_recommendation,
                   urgencyVars, pipelineVars, optimizerVars, mainVars, runs>>

GenerateExecutionPlan ==
    /\ pc = "start"
    /\ execution_plan' = _generate_execution_plan(wallet_data, portfolio_recommendation)
    /\ pc' = "planned"
    /\ UNCHANGED <<sequencerVars, wallet_data, portfolio_recommendation,
                   urgencyVars, pipelineVars, optimizerVars,
                   mainVars, runs>>

NextDiff == GenerateExecutionPlan

SpecDiff == InitDiff /\ [][NextDiff]_vars

\* The urgency classifier alone, on every yield change and trade list.
InitUrgency ==
    /\ pc = "start"
    /\ SequencerIdle
    /\ wallet_data = NoWallet
    /\ portfolio_recommendation = NoRecommendation
    /\ execution_plan = NoPlan
    /\ yield_change \in YieldChanges
    /\ required_trades \in SeqsUpTo(UrgencyTrades, MaxTrades)
    /\ trade_urgency = "unset"
    /\ PipelineIdle
    /\ OptimizerIdle
    /\ MainIdle
    /\ runs = <<>>

DetermineTradeUrgency ==
    /\ pc = "start"
    /\ trade_urgency' = _determine_trade_urgency(yield_change, required_trades)
    /\ pc' = "classified"
    /\ UNCHANGED <<sequencerVars, wallet_data, portfolio_recommendation,
                   execution_plan, yield_change, required_trades, pipelineVars,
                   optimizerVars,
                   mainVars, runs>>

NextUrgency == DetermineTradeUrgency

SpecUrgency == InitUrgency /\ [][NextUrgency]_vars

\* main's stages portfolio optimization and execution planning, run on the
\* strategies, the market data and the wallet the earlier stages left on disk.
InitPipeline ==
    /\ pc = "portfolio_optimization"
    /\ SequencerIdle
    /\ \E ps \in PipelineWallets : wallet_data = [wallet_positions |-> ps, wallet_balances |-> <<>>]
    /\ portfolio_recommendation = NoRecommendation
    /\ execution_plan = NoPlan
    /\ UrgencyIdle
    /\ \E ps \in StrategyLists : yield_strategy = [ideal_positions |-> ps]
    /\ \E ps \in StrategyLists, score \in RiskScores :
           risk_adjusted_strategy = [ideal_positions |-> ps, risk_score |-> score]
    /\ market_data \in MarketDataInputs
    /\ recommendation_file = NoFile
    /\ result = NoResult
    /\ OptimizerIdle
    /\ stages = EarlierStages
    /\ exit_code = <<>>
    /\ runs = <<>>

\* run_portfolio_optimization: the task's result, the file save_output wrote
\* (its failure is not looked at), and the stage main goes to.
RunPortfolioOptimization ==
    /\ pc = "portfolio_optimization"
    /\ \E fault \in Faults \ {"portfolio_recommendation"}, saved \in BOOLEAN :
           LET res == _optimize_portfolio(yield_strategy, risk_adjusted_strategy,
                                          market_data, wallet_data, fault)
           IN  /\ result' = res
               /\ recommendation_file' =
                      IF "data" \in DOMAIN res /\ saved
                      THEN [exists |-> TRUE, content |-> res.data]
                      ELSE recommendation_file
               /\ pc' = IF "error" \in DOMAIN res THEN "failed" ELSE "execution_planning"
               /\ StageReturns("portfolio_optimization", "error" \in DOMAIN res)
    /\ UNCHANGED <<sequencerVars, wallet_data, portfolio_recommendation, execution_plan,
                   urgencyVars, yield_strategy, risk_adjusted_strategy, market_data,
                   optimizerVars, runs>>

\* run_execution_planning: the plan of the wallet against the recommendation
\* file, and the stage main goes to.
RunExecutionPlanning ==
    /\ pc = "execution_planning"
    /\ \E fault \in {"none", "wallet_data", "portfolio_recommendation"} :
           LET res == _create_execution_plan(wallet_data, recommendation_file, fault)
           IN  /\ result' = res
               /\ portfolio_recommendation' =
                      IF "data" \in DOMAIN res THEN recommendation_file.content
                      ELSE portfolio_recommendation
               /\ execution_plan' = IF "data" \in DOMAIN res THEN res.data ELSE execution_plan
               /\ pc' = IF "error" \in DOMAIN res THEN "failed" ELSE "final_report"
               /\ StageReturns("execution_planning", "error" \in DOMAIN res)
    /\ UNCHANGED <<sequencerVars, wallet_data, urgencyVars, yield_strategy,
                   risk_adjusted_strategy, market_data, recommendation_file,
                   optimizerVars, runs>>

NextPipeline == RunPortfolioOptimization \/ RunExecutionPlanning

SpecPipeline == InitPipeline /\ [][NextPipeline]_vars

\* The Blender alone: the weights of the risk score and the combination of
\* the two strategies' positions (the head of _generate_optimized_portfolio).
InitBlend ==
    /\ pc = "start"
    /\ SequencerIdle
    /\ wallet_data = NoWallet
    /\ portfolio_recommendation = NoRecommendation
    /\ execution_plan = NoPlan
    /\ UrgencyIdle
    /\ \E ps \in BlendLists : yield_strategy = [ideal_positions |-> ps]
    /\ risk_adjusted_strategy \in BlendRiskStrategies
    /\ market_data = <<>>
    /\ recommendation_file = NoFile
    /\ result = NoResult
    /\ OptimizerIdle
    /\ MainIdle
    /\ runs = <<>>

CombineStrategies ==
    /\ pc = "start"
    /\ optimization' =
           [yield_weight |-> Weights(Get(risk_adjusted_strategy, "risk_score", 5)).yield_weight,
            risk_weight |-> Weights(Get(risk_adjusted_strategy, "risk_score", 5)).risk_weight,
            approach |-> Weights(Get(risk_adjusted_strategy, "risk_score", 5)).approach,
            optimized_positions |-> optimized_positions(yield_strategy, risk_adjusted_strategy)]
    /\ pc' = "combined"
    /\ UNCHANGED <<sequencerVars, wallet_data, portfolio_recommendation, execution_plan,
                   urgencyVars, pipelineVars, optimized_plan,
                   mainVars, runs>>

NextBlend == CombineStrategies

SpecBlend == InitBlend /\ [][NextBlend]_vars

\* The relative diff alone, on a wallet's positions and a blended target.
InitRequiredTrades ==
    /\ pc = "start"
    /\ SequencerIdle
    /\ \E ps \in CurrentLists : wallet_data = [wallet_positions |-> ps, wallet_balances |-> <<>>]
    /\ portfolio_recommendation = NoRecommendation
    /\ execution_plan = NoPlan
    /\ UrgencyIdle
    /\ PipelineIdle
    /\ \E ps \in TargetLists :
           optimization = [approach |-> "unset", optimized_positions |-> ps]
    /\ optimized_plan = NoOptimizedPlan
    /\ MainIdle
    /\ runs = <<>>

\* _calculate_required_trades(current_positions, optimized_positions): the
\* trade list, or the exception that leaves the function.
CalculateRequiredTrades ==
    /\ pc = "start"
    /\ IF RequiredTradesRaises(wallet_data.wallet_positions, optimization.optimized_positions)
       THEN /\ pc' = "raised"
            /\ required_trades' = required_trades
       ELSE /\ pc' = "calculated"
            /\ required_trades' = _calculate_required_trades(wallet_data.wallet_positions,
                                                             optimization.optimized_positions)
    /\ UNCHANGED <<sequencerVars, wallet_data, portfolio_recommendation, execution_plan,
                   yield_change, trade_urgency, pipelineVars, optimizerVars,
                   mainVars, runs>>

NextRequiredTrades == CalculateRequiredTrades

SpecRequiredTrades == InitRequiredTrades /\ [][NextRequiredTrades]_vars

\* Execution planning alone, on a wallet and a recommendation file that holds
\* ideal_positions.
InitCreatePlan ==
    /\ pc = "execution_planning"
    /\ SequencerIdle
    /\ \E ps \in PlanPositionLists, bs \in PlanBalanceLists :
           wallet_data = [wallet_positions |-> ps, wallet_balances |-> bs]
    /\ portfolio_recommendation = NoRecommendation
    /\ execution_plan = NoPlan
    /\ UrgencyIdle
    /\ yield_strategy = NoStrategy
    /\ risk_adjusted_strategy = NoStrategy
    /\ market_data = <<>>
    /\ \E ps \in PlanPositionLists :
           recommendation_file = [exists |-> TRUE, content |-> [ideal_positions |-> ps]]
    /\ result = NoResult
    /\ OptimizerIdle
    /\ MainIdle
    /\ runs = <<>>

NextCreatePlan == RunExecutionPlanning

SpecCreatePlan == InitCreatePlan /\ [][NextCreatePlan]_vars

\* The optimization of a plan alone, on the plans _generate_execution_plan
\* makes of every trade list.
InitOptimizePlan ==
    /\ pc = "start"
    /\ SequencerIdle
    /\ wallet_data = NoWallet
    /\ portfolio_recommendation = NoRecommendation
    /\ \E ts \in PlanTradeLists :
           execution_plan = [trade_execution |-> ts, unallocated_balance |-> <<>>,
                             transaction_order |-> _determine_transaction_order(ts),
                             execution_strategy |-> "batch"]
    /\ UrgencyIdle
    /\ PipelineIdle
    /\ OptimizerIdle
    /\ MainIdle
    /\ runs = <<>>

ApplyOptimizationStrategies ==
    /\ pc = "start"
    /\ optimized_plan' = _apply_optimization_strategies(execution_plan)
    /\ execution_plan' = PlanAfterOptimization(execution_plan)
    /\ pc' = "optimized"
    /\ UNCHANGED <<sequencerVars, wallet_data, portfolio_recommendation, urgencyVars,
                   pipelineVars, optimization,
                   mainVars, runs>>

NextOptimizePlan == ApplyOptimizationStrategies

SpecOptimizePlan == InitOptimizePlan /\ [][NextOptimizePlan]_vars

\* The wallets data aggregation fetches in a run of main: no position or one.
MainWallets == {ps \in PipelineWallets : Len(ps) <= 1}

\* main from its start: nothing has been fetched or written.
InitMain ==
    /\ pc = "setup"
    /\ SequencerIdle
    /\ wallet_data = NoWallet
    /\ portfolio_recommendation = NoRecommendation
    /\ execution_plan = NoPlan
    /\ UrgencyIdle
    /\ PipelineIdle
    /\ OptimizerIdle
    /\ MainIdle
    /\ runs = <<>>

\* setup_environment inside main's try: an exception (a directory that
\* cannot be made, a configuration that cannot be loaded) makes main return 1
\* before any stage.
SetupEnvironment ==
    /\ pc = "setup"
    /\ \E raised \in BOOLEAN :
           /\ pc' = IF raised THEN "failed" ELSE "data_aggregation"
           /\ exit_code' = IF raised THEN <<1>> ELSE exit_code
    /\ UNCHANGED <<sequencerVars, wallet_data, portfolio_recommendation, execution_plan,
                   urgencyVars, pipelineVars, optimizerVars, stages, runs>>

\* run_data_aggregation: the aggregator's result holds error, and the stage
\* raises, or it holds the market data and the wallet data.
RunDataAggregation ==
    /\ pc = "data_aggregation"
    /\ \E error \in BOOLEAN, ps \in MainWallets, md \in MarketDataInputs :
           /\ wallet_data' = IF error THEN wallet_data
                              ELSE [wallet_positions |-> ps, wallet_balances |-> <<>>]
           /\ market_data' = IF error THEN market_data ELSE md
           /\ pc' = IF error THEN "failed" ELSE "research"
           /\ StageReturns("data_aggregation", error)
    /\ UNCHANGED <<sequencerVars, portfolio_recommendation, execution_plan, urgencyVars,
                   yield_strategy, risk_adjusted_strategy, recommendation_file, result,
                   optimizerVars, runs>>

\* run_research
RunResearch ==
    /\ pc = "research"
    /\ \E error \in BOOLEAN :
           /\ pc' = IF error THEN "failed" ELSE "yield_analysis"
           /\ StageReturns("research", error)
    /\ UNCHANGED <<sequencerVars, wallet_data, portfolio_recommendation, execution_plan,
                   urgencyVars, pipelineVars, optimizerVars, runs>>

\* run_yield_analysis: two tasks, the strategy task only after an analysis
\* without error; the strategy file is written by the second.
RunYieldAnalysis ==
    /\ pc = "yield_analysis"
    /\ \E analysis_error \in BOOLEAN, strategy_error \in BOOLEAN, ps \in StrategyLists :
           LET error == analysis_error \/ strategy_error
           IN  /\ yield_strategy' = IF error THEN yield_strategy
                                     ELSE [ideal_positions |-> ps]
               /\ pc' = IF error THEN "failed" ELSE "risk_assessment"
               /\ StageReturns("yield_analysis", error)
    /\ UNCHANGED <<sequencerVars, wallet_data, portfolio_recommendation, execution_plan,
                   urgencyVars, risk_adjusted_strategy, market_data, recommendation_file,
                   result, optimizerVars, runs>>

\* run_risk_assessment: two tasks, the strategy task only after an
\* assessment without error.
RunRiskAssessment ==
    /\ pc = "risk_assessment"
    /\ \E assessment_error \in BOOLEAN, strategy_error \in BOOLEAN,
          ps \in StrategyLists, score \in RiskScores :
           LET error == assessment_error \/ strategy_error
           IN  /\ risk_adjusted_strategy' =
                      IF error THEN risk_adjusted_strategy
                      ELSE [ideal_positions |-> ps, risk_score |-> score]
               /\ pc' = IF error THEN "failed" ELSE "portfolio_optimization"
               /\ StageReturns("risk_assessment", error)
    /\ UNCHANGED <<sequencerVars, wallet_data, portfolio_recommendation, execution_plan,
                   urgencyVars, yield_strategy, market_data, recommendation_file,
                   result, optimizerVars, runs>>

\* generate_final_report, and main's return 0 behind it.
GenerateFinalReport ==
    /\ pc = "final_report"
    /\ \E error \in BOOLEAN :
           /\ pc' = IF error THEN "failed" ELSE "completed"
           /\ StageReturns("final_report", error)
    /\ UNCHANGED <<sequencerVars, wallet_data, portfolio_recommendation, execution_plan,
                   urgencyVars, pipelineVars, optimizerVars, runs>>

NextMain ==
    \/ SetupEnvironment
    \/ RunDataAggregation
    \/ RunResearch
    \/ RunYieldAnalysis
    \/ RunRiskAssessment
    \/ RunPortfolioOptimization
    \/ RunExecutionPlanning
    \/ GenerateFinalReport

SpecMain == InitMain /\ [][NextMain]_vars

\* Repeated runs of the core functions on inputs that stay as they are: the
\* Sequencer on a trade list, the classifier on a yield change and required
\* trades, the diff on a wallet and a recommendation, the Blender on two
\* strategies.
InitRerun ==
    \/ InitSequencer
    \/ InitUrgency
    \/ /\ pc = "start"
       /\ SequencerIdle
       /\ \E ps \in CurrentLists : wallet_data = [wallet_positions |-> ps, wallet_balances |-> <<>>]
       /\ \E ps \in TargetLists : portfolio_recommendation = [ideal_positions |-> ps]
       /\ execution_plan = NoPlan
       /\ UrgencyIdle
       /\ PipelineIdle
       /\ OptimizerIdle
       /\ MainIdle
       /\ runs = <<>>
    \/ /\ pc = "start"
       /\ SequencerIdle
       /\ wallet_data = NoWallet
       /\ portfolio_recommendation = NoRecommendation
       /\ execution_plan = NoPlan
       /\ UrgencyIdle
       /\ \E ps \in StrategyLists : yield_strategy = [ideal_positions |-> ps]
       /\ \E ps \in StrategyLists, score \in RiskScores :
              risk_adjusted_strategy = [ideal_positions |-> ps, risk_score |-> score]
       /\ market_data = <<>>
       /\ recommendation_file = NoFile
       /\ result = NoResult
       /\ OptimizerIdle
       /\ MainIdle
       /\ runs = <<>>

\* What one run of the core functions returns on the inputs as they are.
CoreOutputs(wd) ==
    [execution_plan |-> _generate_execution_plan(wd, portfolio_recommendation),
     transaction_order |-> _determine_transaction_order(trades),
     trade_urgency |-> _determine_trade_urgency(yield_change, required_trades),
     execution_timeline |-> _recommend_execution_timeline(required_trades, yield_change),
     optimized_positions |-> optimized_positions(yield_strategy, risk_adjusted_strategy)]

RECURSIVE Reversed(_)
Reversed(s) == IF s = <<>> THEN <<>> ELSE Append(Reversed(Tail(s)), Head(s))

\* A run that walks the wallet positions in an order of its own: after the
\* first run, from the last to the first.
RunCoreFunctionsUnordered ==
    /\ Len(runs) < MaxRuns
    /\ runs' = Append(runs,
                      IF runs = <<>> THEN CoreOutputs(wallet_data)
                      ELSE CoreOutputs([wallet_data EXCEPT
                                           !.wallet_positions = Reversed(@)]))
    /\ UNCHANGED <<pc, sequencerVars, wallet_data, portfolio_recommendation, execution_plan,
                   urgencyVars, pipelineVars, optimizerVars, mainVars>>

\* The functions read their arguments only and change none of them.
RunCoreFunctions ==
    /\ Len(runs) < MaxRuns
    /\ runs' = Append(runs, CoreOutputs(wallet_data))
    /\ UNCHANGED <<pc, sequencerVars, wallet_data, portfolio_recommendation, execution_plan,
                   urgencyVars, pipelineVars, optimizerVars, mainVars>>

NextRerun == RunCoreFunctions

SpecRerun == InitRerun /\ [][NextRerun]_vars

(* ============================== claims ================================== *)

AmountOf(t) == _to_decimal(t.amount)

IsDepositAction(t) == t.action \in {"add", "increase"}

IsWithdrawalAction(t) == t.action \in {"remove", "decrease"}

SamePartition(t, u) == IsWithdrawalAction(t) <=> IsWithdrawalAction(u)

\* The elements of list s that lie in the partition of trade t and have its amount.
RECURSIVE TiesOf(_, _)
TiesOf(s, t) ==
    IF s = <<>> THEN <<>>
    ELSE (IF SamePartition(Head(s), t) /\ AmountOf(Head(s)) = AmountOf(t)
          THEN <<Head(s)>> ELSE <<>>) \o TiesOf(Tail(s), t)

\* C1: in the list the Sequencer returns, no add or increase trade stands
\* before a remove or decrease trade.
C1_NoDepositBeforeWithdrawal ==
    pc = "ordered" =>
        \A i, j \in DOMAIN transaction_order :
            i < j => ~(IsDepositAction(transaction_order[i])
                       /\ IsWithdrawalAction(transaction_order[j]))

\* The Sequencer has run on a list in which a deposit stood before a withdrawal.
C1_Witness ==
    /\ pc = "ordered"
    /\ \E i, j \in DOMAIN trades :
           i < j /\ IsDepositAction(trades[i]) /\ IsWithdrawalAction(trades[j])

\* C2: in the Sequencer's output the amounts of the remove/decrease trades are
\* non-increasing in output order, and so are those of the add/increase trades.
C2_PartitionsNonIncreasing ==
    pc = "ordered" =>
        \A i, j \in DOMAIN transaction_order :
            (/\ i < j
             /\ \/ IsWithdrawalAction(transaction_order[i])
                   /\ IsWithdrawalAction(transaction_order[j])
                \/ IsDepositAction(transaction_order[i])
                   /\ IsDepositAction(transaction_order[j]))
            => AmountOf(transaction_order[i]) >= AmountOf(transaction_order[j])

\* The Sequencer has run on a list where a smaller withdrawal stood before a
\* larger one, with a deposit in front of both.
C2_Witness ==
    /\ pc = "ordered"
    /\ \E h, i, j \in DOMAIN trades :
           /\ h < i /\ i < j
           /\ IsDepositAction(trades[h])
           /\ IsWithdrawalAction(trades[i]) /\ IsWithdrawalAction(trades[j])
           /\ AmountOf(trades[i]) < AmountOf(trades[j])

\* C3: the sort is stable: the trades of one partition that have one amount
\* stand in the output in the order they had in the input.
C3_StableSort ==
    pc = "ordered" =>
        \A i \in DOMAIN trades :
            TiesOf(transaction_order, trades[i]) = TiesOf(trades, trades[i])

\* The Sequencer has run on a list with two different trades of one partition
\* and one amount, behind a trade of that partition with a smaller amount.
C3_Witness ==
    /\ pc = "ordered"
    /\ \E h, i, j \in DOMAIN trades :
           /\ h < i /\ i < j
           /\ trades[i] # trades[j]
           /\ SamePartition(trades[i], trades[j]) /\ SamePartition(trades[h], trades[i])
           /\ AmountOf(trades[i]) = AmountOf(trades[j])
           /\ AmountOf(trades[h]) < AmountOf(trades[i])

WalletPositions == wallet_data.wallet_positions

IdealPositions == portfolio_recommendation.ideal_positions

IdentitiesOf(ps) == {Identity(ps[i]) : i \in DOMAIN ps}

\* The position of list ps that has identity id (identities are unique in the inputs).
PositionOf(ps, id) == ps[CHOOSE i \in DOMAIN ps : Identity(ps[i]) = id]

\* The places of the emitted trades that carry identity id.
TradesOf(id) ==
    {i \in DOMAIN execution_plan.trade_execution :
        Identity(execution_plan.trade_execution[i]) = id}

OnlyTradeOf(id) ==
    execution_plan.trade_execution[CHOOSE i \in TradesOf(id) : TRUE]

\* C4 (as claimed): a key only in the target yields exactly one add with the
\* target amount, a key only in the current set exactly one remove with the
\* current amount, a key in both at most one trade, an increase or a decrease,
\* and no other trade is emitted.
C4_Coverage ==
    pc = "planned" =>
        /\ \A id \in IdentitiesOf(IdealPositions) \ IdentitiesOf(WalletPositions) :
               /\ Cardinality(TradesOf(id)) = 1
               /\ OnlyTradeOf(id).action = "add"
               /\ OnlyTradeOf(id).amount = PositionOf(IdealPositions, id).amount
        /\ \A id \in IdentitiesOf(WalletPositions) \ IdentitiesOf(IdealPositions) :
               /\ Cardinality(TradesOf(id)) = 1
               /\ OnlyTradeOf(id).action = "remove"
               /\ OnlyTradeOf(id).amount = PositionOf(WalletPositions, id).amount
        /\ \A id \in IdentitiesOf(WalletPositions) \cap IdentitiesOf(IdealPositions) :
               /\ Cardinality(TradesOf(id)) <= 1
               /\ \A i \in TradesOf(id) :
                      execution_plan.trade_execution[i].action \in {"increase", "decrease"}
        /\ \A i \in DOMAIN execution_plan.trade_execution :
               Identity(execution_plan.trade_execution[i])
                   \in IdentitiesOf(WalletPositions) \cup IdentitiesOf(IdealPositions)

\* C5 (as claimed): for a key in both sets, with delta = target - current:
\* no trade when |delta| <= 0.01, an increase of delta when delta > 0.01,
\* a decrease of |delta| when delta < -0.01.
C5_DustThreshold ==
    pc = "planned" =>
        \A id \in IdentitiesOf(WalletPositions) \cap IdentitiesOf(IdealPositions) :
            LET delta == AmountOf(PositionOf(IdealPositions, id))
                             - AmountOf(PositionOf(WalletPositions, id))
            IN  /\ Abs(delta) <= 100 => TradesOf(id) = {}
                /\ delta > 100 =>
                       /\ Cardinality(TradesOf(id)) = 1
                       /\ OnlyTradeOf(id).action = "increase"
                       /\ OnlyTradeOf(id).amount = Num(delta)
                /\ delta < 0 - 100 =>
                       /\ Cardinality(TradesOf(id)) = 1
                       /\ OnlyTradeOf(id).action = "decrease"
                       /\ OnlyTradeOf(id).amount = Num(0 - delta)

C7_ObligationTypeInKey ==
    (/\ pc = "planned"
     /\ Len(WalletPositions) = 1 /\ Len(IdealPositions) = 1
     /\ PositionKey(WalletPositions[1]) = PositionKey(IdealPositions[1])
     /\ WalletPositions[1].obligation_type # IdealPositions[1].obligation_type)
        => /\ Len(execution_plan.trade_execution) = 2
           /\ \E i \in 1..2 :
                  /\ execution_plan.trade_execution[i].action = "remove"
                  /\ Identity(execution_plan.trade_execution[i]) = Identity(WalletPositions[1])
           /\ \E i \in 1..2 :
                  /\ execution_plan.trade_execution[i].action = "add"
                  /\ Identity(execution_plan.trade_execution[i]) = Identity(IdealPositions[1])

\* The Blender's output as stored in the portfolio recommendation.
BlendedPositions == recommendation_file.content.optimized_positions

\* C8 (as claimed): in the pipeline the wallet is diffed against the Blender's
\* output: every blended position absent from the wallet yields an add, and a
\* wallet position whose key is blended with an amount within the dust
\* threshold yields no trade.
C8_PlanFollowsBlender ==
    pc = "final_report" =>
        /\ \A b \in DOMAIN BlendedPositions :
               (\A w \in DOMAIN WalletPositions :
                    PositionKey(WalletPositions[w]) # PositionKey(BlendedPositions[b]))
               => \E t \in DOMAIN execution_plan.trade_execution :
                      /\ execution_plan.trade_execution[t].action = "add"
                      /\ PositionKey(execution_plan.trade_execution[t])
                             = PositionKey(BlendedPositions[b])
                      /\ AmountOf(execution_plan.trade_execution[t])
                             = AmountOf(BlendedPositions[b])
        /\ \A w \in DOMAIN WalletPositions :
               (\E b \in DOMAIN BlendedPositions :
                    /\ PositionKey(BlendedPositions[b]) = PositionKey(WalletPositions[w])
                    /\ Abs(AmountOf(BlendedPositions[b]) - AmountOf(WalletPositions[w])) <= 100)
               => \A t \in DOMAIN execution_plan.trade_execution :
                      PositionKey(execution_plan.trade_execution[t])
                          # PositionKey(WalletPositions[w])

\* C9 (as claimed): the plan's trade_execution list is in Sequencer order:
\* no add or increase trade stands before a remove or decrease trade.
C9_TradeExecutionOrdered ==
    pc = "planned" =>
        \A i, j \in DOMAIN execution_plan.trade_execution :
            i < j => ~(IsDepositAction(execution_plan.trade_execution[i])
                       /\ IsWithdrawalAction(execution_plan.trade_execution[j]))

SignificantCount == Cardinality({i \in DOMAIN required_trades :
                                    required_trades[i].action \in {"add", "remove"}})

OptimizationResult == result.data

\* C11: in every optimization result the execution timeline is the text of
\* the urgency of the same result (high, medium, low, none), and the timeline
\* "No trades required at this time" occurs iff required_trades is empty.
C11_TimelineFollowsUrgency ==
    pc = "execution_planning" =>
        /\ OptimizationResult.trade_urgency \in {"high", "medium", "low", "none"}
        /\ OptimizationResult.execution_timeline
               = "Execute trades immediately to capture yield opportunity"
               <=> OptimizationResult.trade_urgency = "high"
        /\ OptimizationResult.execution_timeline
               = "Execute trades within the next 24-48 hours"
               <=> OptimizationResult.trade_urgency = "medium"
        /\ OptimizationResult.execution_timeline
               = "Execute trades during regular rebalancing schedule"
               <=> OptimizationResult.trade_urgency = "low"
        /\ OptimizationResult.execution_timeline = "No trades required at this time"
               <=> OptimizationResult.trade_urgency = "none"
        /\ OptimizationResult.execution_timeline = "No trades required at this time"
               <=> OptimizationResult.required_trades = <<>>

\* An optimization has returned a remove and an add with a yield gain of 1.50:
\* urgency high, to be executed immediately.
C11_Witness ==
    /\ pc = "execution_planning"
    /\ OptimizationResult.yield_change = 150
    /\ Len(OptimizationResult.required_trades) = 2
    /\ OptimizationResult.trade_urgency = "high"
    /\ OptimizationResult.execution_timeline
           = "Execute trades immediately to capture yield opportunity"

\* C12: the weights are selected by the risk score alone, one pair for every
\* score: (0.8, 0.2) below 3, (0.5, 0.5) from 3 to below 6, (0.2, 0.8) from 6
\* on; the two weights sum to 1.0 (weights in tenths).
C12_WeightSelection ==
    (pc = "combined" /\ "risk_score" \in DOMAIN risk_adjusted_strategy) =>
        LET score == risk_adjusted_strategy.risk_score
            pair == <<optimization.yield_weight, optimization.risk_weight>>
        IN  /\ score < 3 => pair = <<8, 2>>
            /\ (3 <= score /\ score < 6) => pair = <<5, 5>>
            /\ score >= 6 => pair = <<2, 8>>
            /\ pair \in {<<8, 2>>, <<5, 5>>, <<2, 8>>}
            /\ optimization.yield_weight + optimization.risk_weight = 10

\* Strategies have been combined at a risk score of exactly 3, the lower edge
\* of the balanced bucket.
C12_Witness ==
    /\ pc = "combined"
    /\ "risk_score" \in DOMAIN risk_adjusted_strategy
    /\ risk_adjusted_strategy.risk_score = 3
    /\ optimization.yield_weight = 5
    /\ optimization.risk_weight = 5
    /\ optimization.approach = "balanced"

YieldPositions == yield_strategy.ideal_positions

RiskPositions == risk_adjusted_strategy.ideal_positions

BlendedOutput == optimization.optimized_positions

\* The (protocol, market) keys of a position list.
KeysOf(ps) == {StrategyKey(ps[i]) : i \in DOMAIN ps}

\* The amount a list holds on a key, in units of 0.0001: 0 when the key is
\* absent, the amount of the later entry when the list names the key twice.
AmountAt(ps, key) ==
    LET places == {i \in DOMAIN ps : StrategyKey(ps[i]) = key}
    IN  IF places = {} THEN 0
        ELSE AmountOf(ps[CHOOSE i \in places : \A j \in places : j <= i])

\* yieldAmount*yieldWeight + riskAmount*riskWeight before the rounding, in
\* units of 0.00001.
ExactBlend(key) ==
    AmountAt(YieldPositions, key) * optimization.yield_weight
        + AmountAt(RiskPositions, key) * optimization.risk_weight

\* The places of the output positions on a key.
BlendedAt(key) == {i \in DOMAIN BlendedOutput : StrategyKey(BlendedOutput[i]) = key}

\* C13: for every (protocol, market) key of the yield or the risk list the
\* output holds one position, whose amount is yieldAmount*yieldWeight +
\* riskAmount*riskWeight rounded to 4 decimal places (an amount absent from a
\* list counting as 0); a key blended to exactly 0 has no output position.
C13_BlendedAmount ==
    pc = "combined" =>
        \A key \in KeysOf(YieldPositions) \cup KeysOf(RiskPositions) :
            IF ExactBlend(key) = 0 THEN BlendedAt(key) = {}
            ELSE /\ Cardinality(BlendedAt(key)) = 1
                 /\ \A i \in BlendedAt(key) :
                        /\ BlendedOutput[i].amount[1] = "num"
                        /\ Abs(10 * AmountOf(BlendedOutput[i]) - ExactBlend(key)) <= 5

\* Yield 50 and risk 30 on one market have been combined with the weights
\* (0.2, 0.8) into 34.0.
C13_Witness ==
    /\ pc = "combined"
    /\ optimization.yield_weight = 2
    /\ Len(YieldPositions) = 1 /\ Len(RiskPositions) = 1
    /\ StrategyKey(YieldPositions[1]) = StrategyKey(RiskPositions[1])
    /\ YieldPositions[1].amount = Num(500000)
    /\ RiskPositions[1].amount = Num(300000)
    /\ Len(BlendedOutput) = 1
    /\ BlendedOutput[1].amount = Num(340000)

\* C14 (as claimed): no output position of the Blender has amount 0 after the
\* rounding to 4 decimal places, and every key whose blended amount rounds to
\* a non-zero amount has an output position.
C14_DropsExactlyZero ==
    pc = "combined" =>
        /\ \A i \in DOMAIN BlendedOutput : AmountOf(BlendedOutput[i]) # 0
        /\ \A key \in KeysOf(YieldPositions) \cup KeysOf(RiskPositions) :
               ExactBlend(key) > 5 => BlendedAt(key) # {}

TargetPositions == optimization.optimized_positions

\* The entry a list holds on a (protocol, market) key: the later one when the
\* list names the key twice.
EntryAt(ps, key) ==
    ps[CHOOSE i \in DOMAIN ps :
           /\ StrategyKey(ps[i]) = key
           /\ \A j \in DOMAIN ps : StrategyKey(ps[j]) = key => j <= i]

\* The places of the required trades on a key.
RequiredOn(key) == {i \in DOMAIN required_trades : StrategyKey(required_trades[i]) = key}

OnlyRequiredOn(key) == required_trades[CHOOSE i \in RequiredOn(key) : TRUE]

C16_ZeroAmountNeverFails == pc # "raised"

WalletBalances == wallet_data.wallet_balances

Unparsable(items) == \E i \in DOMAIN items : items[i].amount[1] # "num"

\* C17 (as claimed): plan creation does not succeed on a position or a balance
\* whose amount is no numeral: it ends with an error and without a plan.
C17_UnparsableAmountFails ==
    (\/ Unparsable(WalletPositions)
     \/ Unparsable(WalletBalances)
     \/ Unparsable(recommendation_file.content.ideal_positions))
        => /\ pc # "final_report"
           /\ "data" \notin DOMAIN result
           /\ execution_plan = NoPlan

UnallocatedBalance == execution_plan.unallocated_balance

\* The sum of the amounts of the balances of one symbol.
RECURSIVE BalanceSum(_, _)
BalanceSum(balances, symbol) ==
    IF balances = <<>> THEN 0
    ELSE (IF Head(balances).symbol = symbol THEN AmountOf(Head(balances)) ELSE 0)
             + BalanceSum(Tail(balances), symbol)

BalancesOf(symbol) == SelectSeq(WalletBalances, LAMBDA b : b.symbol = symbol)

\* C19: the plan's unallocated_balance has one entry for each symbol of
\* wallet_balances and for no other symbol, and the entry of a symbol is the
\* sum of the amounts of all balances of that symbol (for symbols whose
\* balances are all numerals).
C19_UnallocatedBalanceSums ==
    pc = "final_report" =>
        /\ {UnallocatedBalance[i].key : i \in DOMAIN UnallocatedBalance}
               = {WalletBalances[i].symbol : i \in DOMAIN WalletBalances}
        /\ \A i, j \in DOMAIN UnallocatedBalance :
               UnallocatedBalance[i].key = UnallocatedBalance[j].key => i = j
        /\ \A i \in DOMAIN UnallocatedBalance :
               ~Unparsable(BalancesOf(UnallocatedBalance[i].key)) =>
                   /\ UnallocatedBalance[i].val[1] = "num"
                   /\ UnallocatedBalance[i].val[2]
                          = BalanceSum(WalletBalances, UnallocatedBalance[i].key)

\* A plan has been made of a wallet with USDC balances of 5.00 and 7.00 around
\* a SOL balance: USDC 12.00, SOL 5.00.
C19_Witness ==
    /\ pc = "final_report"
    /\ WalletBalances = <<Balance("USDC", Num(50000)), Balance("SOL", Num(50000)),
                          Balance("USDC", Num(70000))>>
    /\ UnallocatedBalance = <<[key |-> "USDC", val |-> Num(120000)],
                              [key |-> "SOL", val |-> Num(50000)]>>

TradeExecution == execution_plan.trade_execution

\* C18: for position sets with non-negative amounts every trade of the Diff
\* Engine has a non-negative amount: an add carries the amount of its target
\* position, a remove the amount of its current position, an increase or a
\* decrease the magnitude |target - current| of its target position and the
\* current position matched with it.
C18_NonNegativeAmounts ==
    pc = "planned" =>
        \A t \in DOMAIN TradeExecution :
            LET trade == TradeExecution[t]
            IN  /\ trade.amount[1] = "num"
                /\ trade.amount[2] >= 0
                /\ trade.action = "add" =>
                       \E i \in DOMAIN IdealPositions :
                           /\ Identity(IdealPositions[i]) = Identity(trade)
                           /\ IdealPositions[i].amount = trade.amount
                /\ trade.action = "remove" =>
                       \E w \in DOMAIN WalletPositions :
                           /\ Identity(WalletPositions[w]) = Identity(trade)
                           /\ WalletPositions[w].amount = trade.amount
                /\ trade.action \in {"increase", "decrease"} =>
                       \E i \in DOMAIN IdealPositions, w \in DOMAIN WalletPositions :
                           LET delta == AmountOf(IdealPositions[i])
                                            - AmountOf(WalletPositions[w])
                           IN  /\ Identity(IdealPositions[i]) = Identity(trade)
                               /\ PositionKey(WalletPositions[w]) = PositionKey(trade)
                               /\ (trade.action = "increase") <=> (delta > 0)
                               /\ trade.amount[2] = Abs(delta)

\* A plan holds a decrease, by the magnitude 0.0201 of a negative difference,
\* next to a remove.
C18_Witness ==
    /\ pc = "planned"
    /\ \E t \in DOMAIN TradeExecution :
           /\ TradeExecution[t].action = "decrease"
           /\ TradeExecution[t].amount = Num(201)
    /\ \E t \in DOMAIN TradeExecution : TradeExecution[t].action = "remove"

\* C20: after _apply_optimization_strategies batch_size is the smaller of the
\* number of trades in trade_execution and 5: it lies in 0..5, never exceeds
\* the trade count, and is 0 for a plan without trades.
C20_BatchSize ==
    pc = "optimized" =>
        LET count == Len(optimized_plan.trade_execution)
        IN  /\ optimized_plan.batch_size \in 0..5
            /\ optimized_plan.batch_size <= count
            /\ count <= 5 => optimized_plan.batch_size = count
            /\ count >= 5 => optimized_plan.batch_size = 5
            /\ count = 0 => optimized_plan.batch_size = 0

\* A plan of six trades has been optimized: batch size 5.
C20_Witness ==
    /\ pc = "optimized"
    /\ Len(optimized_plan.trade_execution) = 6
    /\ optimized_plan.batch_size = 5

TransactionOrder == execution_plan.transaction_order

\* C21: every trade of a plan made by _generate_execution_plan, in
\* trade_execution and in transaction_order, has an action among add,
\* increase, decrease and remove.
C21_ActionsOfThePlan ==
    pc = "planned" =>
        /\ \A t \in DOMAIN TradeExecution :
               TradeExecution[t].action \in {"add", "increase", "decrease", "remove"}
        /\ \A t \in DOMAIN TransactionOrder :
               TransactionOrder[t].action \in {"add", "increase", "decrease", "remove"}

\* A plan holds an increase and a remove, in both of its lists.
C21_Witness ==
    /\ pc = "planned"
    /\ \E t, u \in DOMAIN TradeExecution :
           TradeExecution[t].action = "increase" /\ TradeExecution[u].action = "remove"
    /\ \E t, u \in DOMAIN TransactionOrder :
           TransactionOrder[t].action = "increase" /\ TransactionOrder[u].action = "remove"

C24_InputPlanUnchanged ==
    [][/\ execution_plan'.trade_execution = execution_plan.trade_execution
       /\ execution_plan'.transaction_order = execution_plan.transaction_order]_vars

\* A position of the set while trades are applied to it: held or not, and
\* its amount.
Absent == [held |-> FALSE, amount |-> 0]

Held(amt) == [held |-> TRUE, amount |-> amt]

\* add creates the position with the trade amount, increase adds the amount,
\* decrease subtracts it, remove deletes the position.
ApplyTrade(position, trade) ==
    CASE trade.action = "add" -> Held(AmountOf(trade))
      [] trade.action = "increase" -> [position EXCEPT !.amount = @ + AmountOf(trade)]
      [] trade.action = "decrease" -> [position EXCEPT !.amount = @ - AmountOf(trade)]
      [] trade.action = "remove" -> Absent
      [] OTHER -> position

\* The position of identity id after the trades of list ts that carry that
\* identity have been applied in order.
RECURSIVE ApplyTrades(_, _, _)
ApplyTrades(position, ts, id) ==
    IF ts = <<>> THEN position
    ELSE ApplyTrades(IF Identity(Head(ts)) = id THEN ApplyTrade(position, Head(ts))
                     ELSE position,
                     Tail(ts), id)

\* The current position of identity id after the plan's trades.
AfterTrades(id) ==
    ApplyTrades(IF id \in IdentitiesOf(WalletPositions)
                THEN Held(AmountOf(PositionOf(WalletPositions, id)))
                ELSE Absent,
                TradeExecution, id)

\* C25 (as claimed): applying the plan's trades to the current set yields a
\* set whose keys are exactly the target's keys and whose amount on every key
\* differs from the target amount by at most 0.01.
C25_DiffReachesTarget ==
    pc = "planned" =>
        \A id \in IdentitiesOf(WalletPositions) \cup IdentitiesOf(IdealPositions)
                       \cup IdentitiesOf(TradeExecution) :
            /\ AfterTrades(id).held <=> id \in IdentitiesOf(IdealPositions)
            /\ id \in IdentitiesOf(IdealPositions) =>
                   Abs(AfterTrades(id).amount - AmountOf(PositionOf(IdealPositions, id)))
                       <= DustThreshold

\* How many times trade t stands in list s.
Occurrences(s, t) == Cardinality({i \in DOMAIN s : s[i] = t})

\* C26: the Sequencer's output is a permutation of its input: every trade
\* stands in the output as often as in the input, a trade of an unknown action
\* included, and such a trade stands among the deposits, behind every
\* withdrawal.
C26_Permutation ==
    pc = "ordered" =>
        /\ Len(transaction_order) = Len(trades)
        /\ \A t \in TradeInputs : Occurrences(transaction_order, t) = Occurrences(trades, t)
        /\ \A i, j \in DOMAIN transaction_order :
               (~IsWithdrawalAction(transaction_order[i])
                /\ IsWithdrawalAction(transaction_order[j])) => j < i

\* The Sequencer has run on a list that holds one trade twice and a trade of
\* an unknown action in front of a withdrawal.
C26_Witness ==
    /\ pc = "ordered"
    /\ \E h, i, j \in DOMAIN trades :
           /\ h < i /\ i < j
           /\ trades[h].action = "adjust"
           /\ trades[i] = trades[j]
           /\ IsWithdrawalAction(trades[i])

\* C27 (as claimed): every result of execute_task holds a status that is
\* success or failed, an error field exactly when the status is failed, and
\* a data field exactly when it is success.
C27_ResultShape ==
    result # NoResult =>
        /\ "status" \in DOMAIN result
        /\ result.status \in {"success", "failed"}
        /\ "error" \in DOMAIN result <=> result.status = "failed"
        /\ "data" \in DOMAIN result <=> result.status = "success"

\* C29 (as claimed): a task that returns success has written its output: when
\* portfolio optimization has returned success and main has gone on to execution
\* planning, the recommendation file exists and holds the data of the result.
C29_SuccessMeansWritten ==
    (pc = "execution_planning" /\ result # NoResult /\ result.status = "success") =>
        /\ recommendation_file.exists
        /\ recommendation_file.content = result.data

\* The first entry of list ps on a key.
FirstEntryAt(ps, key) ==
    ps[CHOOSE i \in DOMAIN ps :
           /\ StrategyKey(ps[i]) = key
           /\ \A j \in DOMAIN ps : StrategyKey(ps[j]) = key => i <= j]

\* The input entry an output position on a key takes its symbol and its
\* obligation type from: the yield list's (its last on the key), else the
\* risk list's (its first on the key).
SourceEntry(key) ==
    IF key \in KeysOf(YieldPositions) THEN EntryAt(YieldPositions, key)
    ELSE FirstEntryAt(RiskPositions, key)

\* C30: the Blender identifies positions by (protocol, market): its output
\* holds at most one position per key, only on keys of its inputs; on a key
\* of both lists the position has the symbol and the obligation type of the
\* yield list's entry, on a key of one list those of that list's entry.
C30_OnePositionPerKey ==
    pc = "combined" =>
        /\ KeysOf(BlendedOutput) \subseteq KeysOf(YieldPositions) \cup KeysOf(RiskPositions)
        /\ \A key \in KeysOf(BlendedOutput) :
               /\ Cardinality(BlendedAt(key)) = 1
               /\ \A i \in BlendedAt(key) :
                      /\ BlendedOutput[i].symbol = SourceEntry(key).symbol
                      /\ BlendedOutput[i].obligation_type = SourceEntry(key).obligation_type

\* The Blender has run on a yield list that supplies USDC on Kamino and a risk
\* list that borrows SOL there: one position, USDC supplied.
C30_Witness ==
    /\ pc = "combined"
    /\ \E i \in DOMAIN YieldPositions, j \in DOMAIN RiskPositions :
           /\ StrategyKey(YieldPositions[i]) = StrategyKey(RiskPositions[j])
           /\ YieldPositions[i].symbol = "USDC" /\ RiskPositions[j].symbol = "SOL"
           /\ YieldPositions[i].obligation_type = "Supply"
           /\ RiskPositions[j].obligation_type = "Borrow"
           /\ AmountOf(RiskPositions[j]) > 0
    /\ Len(BlendedOutput) = 1
    /\ BlendedOutput[1].symbol = "USDC"
    /\ BlendedOutput[1].obligation_type = "Supply"

\* C28: main runs its stages in the fixed order data aggregation, research,
\* yield analysis, risk assessment, portfolio optimization, execution
\* planning, final report; a stage starts only after every earlier stage
\* returned without error; after a stage's error no later stage starts and
\* main returns 1; main returns 0 only if all seven stages returned without
\* error.
C28_StagesInOrder ==
    /\ Len(stages) <= Len(StageOrder)
    /\ \A i \in DOMAIN stages : stages[i].stage = StageOrder[i]
    /\ \A i \in DOMAIN stages : i < Len(stages) => ~stages[i].error
    /\ (\E i \in DOMAIN stages : stages[i].error) => exit_code = <<1>> /\ pc = "failed"
    /\ exit_code = <<0>> =>
           /\ Len(stages) = Len(StageOrder)
           /\ \A i \in DOMAIN stages : ~stages[i].error

\* main has returned 1 after execution planning failed on a recommendation
\* that portfolio optimization had reported as written: six stages ran, the
\* final report was not started.
C28_Witness ==
    /\ pc = "failed"
    /\ exit_code = <<1>>
    /\ Len(stages) = 6
    /\ stages[6].error
    /\ \A i \in 1..5 : ~stages[i].error

====
